---- MODULE Spec2Model ----
(***************************************************************************)
(* Model of snooze-rs, src/linux.rs: the Snooze periodic waiter built on   *)
(* clock_gettime(CLOCK_MONOTONIC) and clock_nanosleep(TIMER_ABSTIME).      *)
(*                                                                         *)
(* One thread owns one Snooze.  The state is the object's two fields, the  *)
(* monotonic clock, the thread's errno (read by io::Error::last_os_error)  *)
(* and the position of the thread inside wait's sleep loop.  Integers are  *)
(* mathematical: time_t/c_long additions stay far below 2^31 here, and the *)
(* nanosecond sum of two values below 1e9 fits a 32-bit c_long.            *)
(***************************************************************************)
EXTENDS Integers, Sequences, FiniteSets, TLC

\* ---------------------------------------------------------------- bounds
MaxSec == 1          \* the clock ticks on its own up to this many seconds
MaxCalls == 3        \* reset/wait calls made on one Snooze
MaxAttempts == 2     \* sleep attempts of one wait call kept in the log

\* ------------------------------------------------------------- constants
NANOS_IN_SECOND == 1000000000

\* ------------------------------------------------------------ value sets
NsecVals == {0, 2, 500000000, 999999999}
ClockNsecVals == {0, 999999999}

Timespec(s, n) == [tv_sec |-> s, tv_nsec |-> n]

ZeroTime == Timespec(0, 0)

\* Instants the monotonic clock shows when it advances on its own.
ClockVals == {Timespec(s, n) : s \in 0..MaxSec, n \in ClockNsecVals}

\* std::time::duration::Duration values: secs plus nanos in [0, 1e9),
\* the value being secs + nanos/1e9 (negative durations have secs < 0).
Durations ==
  {[secs |-> 0, nanos |-> n] : n \in NsecVals}
    \cup {[secs |-> 1, nanos |-> 0],
          [secs |-> -1, nanos |-> 0], [secs |-> -1, nanos |-> 500000000]}

\* errno values; "0" is "no error recorded".
Errnos == {"EINTR", "EINVAL", "ENOSYS"}
ErrnoVals == Errnos \cup {"0"}

\* Errors ffi::clock_gettime can fail with (it returns -1 and sets errno).
GettimeErrs == {"EINVAL", "ENOSYS"}

\* ------------------------------------------------------- pure operators
Normalized(t) == t.tv_sec >= 0 /\ t.tv_nsec >= 0 /\ t.tv_nsec < NANOS_IN_SECOND

\* Order of two normalized instants.
TimeLeq(a, b) ==
  \/ a.tv_sec < b.tv_sec
  \/ a.tv_sec = b.tv_sec /\ a.tv_nsec <= b.tv_nsec

\* io::Error::kind() of an OS error number.
ErrorKind(e) ==
  CASE e = "EINTR" -> "Interrupted"
    [] e = "EINVAL" -> "InvalidInput"
    [] OTHER -> "Other"

\* SnoozeError::from_io_error: wraps the io::Error as the generic OS failure.
from_io_error(e) == [kind |-> "OsFailure", err |-> e]

Unsupported == [kind |-> "Unsupported", err |-> "EINVAL"]

OkResult == [kind |-> "Ok", err |-> "0"]

\* num_seconds rounding toward minus infinity.
num_seconds_floor(d) == d.secs

\* Duration::num_seconds: whole seconds, truncated toward zero.
num_seconds(d) == IF d.secs < 0 /\ d.nanos > 0 THEN d.secs + 1 ELSE d.secs

\* (duration - Duration::seconds(duration_secs)).num_nanoseconds().unwrap()
duration_nanos(d) ==
  IF d.secs < 0 /\ d.nanos > 0 THEN d.nanos - NANOS_IN_SECOND ELSE d.nanos

\* The duration field Snooze::new stores.
new_duration(d) == Timespec(num_seconds(d), duration_nanos(d))

\* clock_gettime() without the InvalidInput arm.
clock_gettime_generic(ret, e, tp) ==
  IF ret # 0 THEN from_io_error(e) ELSE OkResult

\* clock_gettime(): ret is what ffi::clock_gettime returned, e is errno
\* afterwards, tp the timespec it filled in.
clock_gettime(ret, e, tp) ==
  IF ret # 0
    THEN IF ErrorKind(e) = "InvalidInput" THEN Unsupported ELSE from_io_error(e)
    ELSE OkResult

\* clock_nanosleep() with clock_gettime()'s error match copied in.
clock_nanosleep_unsup(ret, e) ==
  IF ret # "0"
    THEN CASE ErrorKind(e) = "Interrupted" -> [kind |-> "Retry", err |-> e]
           [] ErrorKind(e) = "InvalidInput" -> Unsupported
           [] OTHER -> from_io_error(e)
    ELSE OkResult

\* clock_nanosleep() ending its loop with Ok on an error it does not retry.
clock_nanosleep_swallow(ret, e) ==
  IF ret # "0"
    THEN IF ErrorKind(e) # "Interrupted" THEN OkResult
                                         ELSE [kind |-> "Retry", err |-> e]
    ELSE OkResult

\* One turn of clock_nanosleep()'s while loop: ret is what
\* ffi::clock_nanosleep returned (an error number or "0"), e is errno.
clock_nanosleep(ret, e) ==
  IF ret # "0"
    THEN IF ErrorKind(e) # "Interrupted" THEN from_io_error(e)
                                         ELSE [kind |-> "Retry", err |-> e]
    ELSE OkResult

\* wait's target with the carry taken out of nanos but not added to seconds.
wait_target_lost_carry(last, dur) ==
  LET seconds == last.tv_sec + dur.tv_sec
      nanos == last.tv_nsec + dur.tv_nsec
  IN IF nanos >= NANOS_IN_SECOND
       THEN Timespec(seconds, nanos - NANOS_IN_SECOND)
       ELSE Timespec(seconds, nanos)

\* wait's target with > for >= in the carry test.
wait_target_gt(last, dur) ==
  LET seconds == last.tv_sec + dur.tv_sec
      nanos == last.tv_nsec + dur.tv_nsec
  IN IF nanos > NANOS_IN_SECOND
       THEN Timespec(seconds + 1, nanos - NANOS_IN_SECOND)
       ELSE Timespec(seconds, nanos)

\* wait's target with the carry test inverted.
wait_target_le(last, dur) ==
  LET seconds == last.tv_sec + dur.tv_sec
      nanos == last.tv_nsec + dur.tv_nsec
  IN IF nanos <= NANOS_IN_SECOND
       THEN Timespec(seconds + 1, nanos - NANOS_IN_SECOND)
       ELSE Timespec(seconds, nanos)

\* wait's target with the interval's seconds subtracted.
wait_target_minus(last, dur) ==
  LET seconds == last.tv_sec - dur.tv_sec
      nanos == last.tv_nsec + dur.tv_nsec
  IN IF nanos >= NANOS_IN_SECOND
       THEN Timespec(seconds + 1, nanos - NANOS_IN_SECOND)
       ELSE Timespec(seconds, nanos)

\* wait's target with the interval's seconds left out.
wait_target_nsec_only(last, dur) ==
  LET seconds == last.tv_sec
      nanos == last.tv_nsec + dur.tv_nsec
  IN IF nanos >= NANOS_IN_SECOND
       THEN Timespec(seconds + 1, nanos - NANOS_IN_SECOND)
       ELSE Timespec(seconds, nanos)

\* target_time of Snooze::wait.
wait_target(last, dur) ==
  LET seconds == last.tv_sec + dur.tv_sec
      nanos == last.tv_nsec + dur.tv_nsec
  IN IF nanos >= NANOS_IN_SECOND
       THEN Timespec(seconds + 1, nanos - NANOS_IN_SECOND)
       ELSE Timespec(seconds, nanos)

\* wait re-anchoring on the time the sleep actually returned.
wait_last_time_actual(r, old, target, woke) ==
  IF r.kind = "Ok" THEN woke ELSE old

\* wait storing the target before looking at the sleep's result.
wait_last_time_early(r, old, target, woke) == target

\* self.last_time after the try!(clock_nanosleep(..)) of Snooze::wait:
\* r is the loop's result, woke the clock when the sleep returned.
wait_last_time(r, old, target, woke) ==
  IF r.kind = "Ok" THEN target ELSE old

\* wait assigning the target to the wrong field.
wait_duration_clobbered(r, dur, target) ==
  IF r.kind = "Ok" THEN target ELSE dur

\* self.duration after Snooze::wait: wait only reads it.
wait_duration(r, dur, target) == dur

\* reset that reads the clock and drops the value.
reset_last_time_keep(r, old, tp) == old

\* new storing a timespec the clock read never filled in.
new_last_time_unset(tp) == ZeroTime

\* last_time of the Snooze that Snooze::new builds: tp is what
\* clock_gettime() returned.
new_last_time(tp) == tp

\* self.last_time after Snooze::reset: r is clock_gettime()'s result.
reset_last_time(r, old, tp) ==
  IF r.kind = "Ok" THEN tp ELSE old

\* ----------------------------------------------------------------- state
VARIABLES
  pc,           \* "none": no Snooze yet; "idle": between calls; "wait": in wait's sleep loop
  duration,     \* Snooze.duration
  last_time,    \* Snooze.last_time
  now,          \* the monotonic clock
  errno,        \* the thread's last OS error
  target_time,  \* wait's local target_time (kept after the call returns)
  result,       \* what the latest call returned: [op, kind, err]
  gt,           \* outcome of the latest ffi::clock_gettime: [ret, err, tp]
  attempts,     \* the latest ffi::clock_nanosleep calls of the latest call: [target, ret, n]
  pre_anchor,   \* last_time when the latest call started
  a0,           \* last_time as set by the latest successful new/reset
  k,            \* successful waits since then
  setby,        \* which of new/reset set a0
  calls,        \* reset/wait calls started so far
  arg,          \* the Duration handed to the latest Snooze::new
  nreads        \* ffi::clock_gettime calls made by the latest call

vars == <<pc, duration, last_time, now, errno, target_time, result, gt,
          attempts, pre_anchor, a0, k, setby, calls, arg, nreads>>

Res(op, r) == [op |-> op, kind |-> r.kind, err |-> r.err]

Init ==
  /\ pc = "none"
  /\ duration = ZeroTime
  /\ last_time = ZeroTime
  /\ now \in ClockVals
  /\ errno \in ErrnoVals
  /\ target_time = ZeroTime
  /\ result = [op |-> "none", kind |-> "Ok", err |-> "0"]
  /\ gt = [ret |-> 0, err |-> "0", tp |-> ZeroTime]
  /\ attempts = <<>>
  /\ pre_anchor = ZeroTime
  /\ a0 = ZeroTime
  /\ k = 0
  /\ setby = "none"
  /\ calls = 0
  /\ arg = [secs |-> 0, nanos |-> 0]
  /\ nreads = 0

\* The clock moves forward on its own.
Tick ==
  /\ \E t \in ClockVals :
       /\ TimeLeq(now, t) /\ t # now
       /\ now' = t
  /\ UNCHANGED <<pc, duration, last_time, errno, target_time, result, gt,
                 attempts, pre_anchor, a0, k, setby, calls, arg, nreads>>

\* Between two calls the owning thread does its own work, whose system
\* calls leave their error number in errno.
CallerWork ==
  /\ pc \in {"none", "idle"}
  /\ \E e \in ErrnoVals : e # errno /\ errno' = e
  /\ UNCHANGED <<pc, duration, last_time, now, target_time, result, gt,
                 attempts, pre_anchor, a0, k, setby, calls, arg, nreads>>

\* Snooze::new(d), the ffi::clock_gettime inside it succeeding (ret = 0,
\* errno untouched) or failing (ret = -1, errno = e).
Snooze_new ==
  /\ pc = "none"
  /\ \E d \in Durations, ret \in {0, -1}, e \in GettimeErrs :
       LET en == IF ret = 0 THEN errno ELSE e
           r == clock_gettime(ret, en, now)
       IN /\ errno' = en
          /\ gt' = [ret |-> ret, err |-> IF ret = 0 THEN "0" ELSE e, tp |-> now]
          /\ result' = Res("new", r)
          /\ arg' = d
          /\ nreads' = 1
          /\ IF r.kind = "Ok"
               THEN /\ pc' = "idle"
                    /\ duration' = new_duration(d)
                    /\ last_time' = new_last_time(now)
                    /\ a0' = now
                    /\ setby' = "new"
               ELSE UNCHANGED <<pc, duration, last_time, a0, setby>>
  /\ UNCHANGED <<now, target_time, attempts, pre_anchor, k, calls>>

\* Snooze::reset.
Snooze_reset ==
  /\ pc = "idle"
  /\ calls < MaxCalls
  /\ calls' = calls + 1
  /\ pre_anchor' = last_time
  /\ \E ret \in {0, -1}, e \in GettimeErrs :
       LET en == IF ret = 0 THEN errno ELSE e
           r == clock_gettime(ret, en, now)
       IN /\ errno' = en
          /\ gt' = [ret |-> ret, err |-> IF ret = 0 THEN "0" ELSE e, tp |-> now]
          /\ result' = Res("reset", r)
          /\ last_time' = reset_last_time(r, last_time, now)
          /\ IF r.kind = "Ok"
               THEN a0' = now /\ k' = 0 /\ setby' = "reset"
               ELSE UNCHANGED <<a0, k, setby>>
  /\ attempts' = <<>>
  /\ nreads' = 1
  /\ UNCHANGED <<pc, duration, now, target_time, arg>>

\* Snooze::wait up to its call of clock_nanosleep: target_time is computed.
Snooze_wait ==
  /\ pc = "idle"
  /\ calls < MaxCalls
  /\ calls' = calls + 1
  /\ pre_anchor' = last_time
  /\ target_time' = wait_target(last_time, duration)
  /\ attempts' = <<>>
  /\ pc' = "wait"
  /\ nreads' = 0
  /\ UNCHANGED <<duration, last_time, now, errno, result, gt, a0, k, setby, arg>>

\* What one ffi::clock_nanosleep(CLOCK_MONOTONIC, TIMER_ABSTIME, target)
\* can return, and the clock when it does.  It returns the error number
\* and leaves errno alone; an out-of-range timespec is EINVAL; success means
\* the clock has reached the target.
SleepOutcomes(target) ==
  IF ~Normalized(target)
    THEN {[ret |-> "EINVAL", woke |-> now]}
    ELSE {[ret |-> "0", woke |-> t] :
            t \in {u \in ClockVals \cup {target, now} :
                     TimeLeq(now, u) /\ TimeLeq(target, u)}}
         \cup {[ret |-> e, woke |-> now] : e \in Errnos}

\* The log of sleep calls after one more: the loop has no retry limit, so
\* the log keeps the latest MaxAttempts calls, each with the parity of its
\* number in the call.
Logged(log, target, ret) ==
  LET n == IF log = <<>> THEN 0 ELSE 1 - log[Len(log)].n
      e == [target |-> target, ret |-> ret, n |-> n]
  IN IF Len(log) < MaxAttempts THEN Append(log, e) ELSE Append(Tail(log), e)

\* One turn of the loop in clock_nanosleep, and the rest of Snooze::wait
\* when the loop ends.
Snooze_wait_sleep ==
  /\ pc = "wait"
  /\ \E o \in SleepOutcomes(target_time) :
       LET r == clock_nanosleep(o.ret, errno)
       IN /\ attempts' = Logged(attempts, target_time, o.ret)
          /\ now' = o.woke
          /\ duration' = wait_duration(r, duration, target_time)
          /\ IF r.kind = "Retry"
               THEN UNCHANGED <<pc, last_time, result, k>>
               ELSE /\ pc' = "idle"
                    /\ result' = Res("wait", r)
                    /\ last_time' = wait_last_time(r, last_time, target_time, o.woke)
                    /\ k' = IF r.kind = "Ok" THEN k + 1 ELSE k
  /\ UNCHANGED <<errno, target_time, gt, pre_anchor, a0, setby, calls,
                 arg, nreads>>

Next ==
  \/ Tick
  \/ CallerWork
  \/ Snooze_new
  \/ Snooze_reset
  \/ Snooze_wait
  \/ Snooze_wait_sleep

Spec == Init /\ [][Next]_vars

\* The thread inside wait keeps running: every ffi::clock_nanosleep call
\* returns and the loop takes its next turn.
FairSpec == Spec /\ WF_vars(Snooze_wait_sleep)

\* ------------------------------------------------------ claim vocabulary
NonNegInterval == duration.tv_sec >= 0 /\ duration.tv_nsec >= 0

\* a and b are the same number of nanoseconds (sec * 1e9 + nsec), worked
\* out on the difference so that no product leaves 32 bits.
TotalEq(a, b) ==
  LET ds == a.tv_sec - b.tv_sec
      dn == b.tv_nsec - a.tv_nsec
  IN ds \in -2..2 /\ ds * NANOS_IN_SECOND = dn

\* a + n * d for a normalized a and a normalized d >= 0, as the normalized
\* instant of a.total + n * d.total, by one division at the end (the
\* nanoseconds are split at 1000 to keep the products small).
ExactSum(a, n, d) ==
  LET q == (a.tv_nsec \div 1000) + n * (d.tv_nsec \div 1000)
      r == (a.tv_nsec % 1000) + n * (d.tv_nsec % 1000)
      qq == q + (r \div 1000)
  IN Timespec(a.tv_sec + n * d.tv_sec + (qq \div 1000000),
              (qq % 1000000) * 1000 + (r % 1000))

WaitReturned == pc = "idle" /\ result.op = "wait"
ResetReturned == pc = "idle" /\ result.op = "reset"
LastAttempt == attempts[Len(attempts)]

\* C1: with a non-negative interval I, after k successful waits since the
\* anchor was set to A0 the anchor is A0 + k*I in total nanoseconds, and
\* the target of the wait in progress (the k+1-th) is A0 + (k+1)*I.
C1_NoDrift ==
  (pc # "none" /\ NonNegInterval) =>
    /\ TotalEq(last_time, ExactSum(a0, k, duration))
    /\ (pc = "wait" => TotalEq(target_time, ExactSum(a0, k + 1, duration)))
    /\ (WaitReturned /\ result.kind = "Ok" =>
          TotalEq(target_time, ExactSum(a0, k, duration)))

C1_Witness ==
  /\ WaitReturned /\ result.kind = "Ok"
  /\ k = 3
  /\ duration = Timespec(0, 999999999)
  /\ a0.tv_nsec = 999999999
  /\ last_time = Timespec(a0.tv_sec + 3, 999999996)

\* C2: after a successful wait the anchor is the target computed at the
\* start of that wait, previous anchor + interval, whatever the clock shows
\* on return; the second wait targets A0 + 2*I.
C2_AnchorIsTarget ==
  /\ (WaitReturned /\ result.kind = "Ok") =>
       /\ last_time = target_time
       /\ TotalEq(last_time, Timespec(pre_anchor.tv_sec + duration.tv_sec,
                                      pre_anchor.tv_nsec + duration.tv_nsec))
  /\ (pc = "wait" /\ k = 1 /\ NonNegInterval) =>
       TotalEq(target_time, ExactSum(a0, 2, duration))

\* A second wait in progress after a first one that returned late.
C2_Witness ==
  /\ pc = "wait" /\ k = 1 /\ calls = 2
  /\ duration = Timespec(0, 500000000)
  /\ ~TimeLeq(now, last_time)
  /\ target_time = Timespec(a0.tv_sec + 1, a0.tv_nsec)

\* C3: with a non-negative interval every stored anchor and every target
\* handed to the sleep has 0 <= tv_nsec < 1e9, and {1, 999999999} + {0, 2}
\* is {2, 1}.
C3_Normalized ==
  (pc # "none" /\ NonNegInterval) =>
    /\ Normalized(last_time)
    /\ (pc = "wait" => Normalized(target_time))
    /\ \A i \in 1..Len(attempts) : Normalized(attempts[i].target)
    /\ ((pc = "wait" \/ WaitReturned)
          /\ pre_anchor = Timespec(1, 999999999)
          /\ duration = Timespec(0, 2)
        => target_time = Timespec(2, 1))

C3_Witness ==
  /\ WaitReturned /\ result.kind = "Ok"
  /\ pre_anchor = Timespec(1, 999999999)
  /\ duration = Timespec(0, 2)
  /\ attempts # <<>> /\ LastAttempt.target = Timespec(2, 1)
  /\ last_time = Timespec(2, 1)

\* C4: every sleep attempt of a wait uses the target computed at its start;
\* an attempt that reports "interrupted" never makes wait return an error;
\* when the sleep then succeeds wait returns Ok with the anchor at that
\* target.
C4_InterruptionTransparent ==
  /\ \A i \in 1..Len(attempts) : attempts[i].target = target_time
  /\ (WaitReturned /\ attempts # <<>> /\ LastAttempt.ret = "EINTR") =>
       result.kind = "Ok"
  /\ (WaitReturned /\ attempts # <<>> /\ LastAttempt.ret = "0") =>
       result.kind = "Ok" /\ last_time = target_time

\* C5: a wait or reset that returns an error leaves the anchor as it was
\* when the call started, and a wait started right after a failed wait
\* computes the failed wait's target again.
C5_FailureKeepsAnchor ==
  /\ []((pc = "idle" /\ result.op \in {"wait", "reset"} /\ result.kind # "Ok")
          => last_time = pre_anchor)
  /\ [][(WaitReturned /\ result.kind # "Ok" /\ pc' = "wait")
          => target_time' = target_time]_vars

\* A wait in progress right after a wait that failed.
C5_Witness ==
  /\ pc = "wait" /\ result.op = "wait" /\ result.kind = "OsFailure"
  /\ calls >= 2
  /\ target_time # last_time
  /\ last_time = pre_anchor

\* C6: a sleep attempt that fails with anything but "interrupted" is the
\* last attempt of its wait, and that wait has returned OsFailure.
C6_HardFailureReturns ==
  \A i \in 1..Len(attempts) :
    attempts[i].ret \notin {"0", "EINTR"} =>
      /\ i = Len(attempts)
      /\ WaitReturned
      /\ result.kind = "OsFailure"

\* C7: a successful reset stores the clock value it read, and the wait
\* after it targets that value + interval.
C7_ResetAnchorsOnClock ==
  /\ (ResetReturned /\ result.kind = "Ok") =>
       gt.ret = 0 /\ last_time = gt.tp /\ a0 = gt.tp
  /\ (pc = "wait" /\ setby = "reset" /\ k = 0) =>
       TotalEq(target_time, Timespec(a0.tv_sec + duration.tv_sec,
                                     a0.tv_nsec + duration.tv_nsec))

\* A reset after a wait, at a later clock value than the anchor it replaces.
C7_Witness ==
  /\ ResetReturned /\ result.kind = "Ok"
  /\ calls >= 2
  /\ last_time # pre_anchor
  /\ last_time = now

\* C8: new fails with Unsupported exactly when the clock read failed with
\* EINVAL, with OsFailure when it failed with anything else, creates no
\* Snooze in either case, and succeeds only when the clock read succeeded.
C8_NewErrors ==
  result.op = "new" =>
    /\ (pc = "none") = (result.kind # "Ok")
    /\ (result.kind = "Ok") = (gt.ret = 0)
    /\ (result.kind = "Unsupported") = (gt.ret # 0 /\ gt.err = "EINVAL")
    /\ (result.kind = "OsFailure") = (gt.ret # 0 /\ gt.err # "EINVAL")
    /\ result.kind \in {"Ok", "Unsupported", "OsFailure"}

C8_Witness ==
  /\ pc = "none" /\ result.op = "new"
  /\ result.kind = "Unsupported"
  /\ gt.ret = -1 /\ gt.err = "EINVAL"

\* C9 as stated: no reset and no wait ever returns Unsupported.
C9_UnsupportedOnlyAtNew ==
  result.op \in {"reset", "wait"} => result.kind # "Unsupported"

\* C9 amended: no wait ever returns Unsupported; a reset returns
\* Unsupported exactly when its clock read failed with EINVAL.
C9_UnsupportedFromClockRead ==
  /\ result.op = "wait" => result.kind # "Unsupported"
  /\ ResetReturned =>
       (result.kind = "Unsupported") = (gt.ret # 0 /\ gt.err = "EINVAL")

C9_Witness ==
  /\ ResetReturned /\ result.kind = "Unsupported"
  /\ gt.err = "EINVAL"

\* C10: with interval {0, 0} the target of every wait is at or before the
\* current clock value.
C10_ZeroIntervalNeverBlocks ==
  (pc # "none" /\ duration = ZeroTime) =>
    /\ (pc = "wait" => TimeLeq(target_time, now))
    /\ \A i \in 1..Len(attempts) : TimeLeq(attempts[i].target, now)

C10_Witness ==
  /\ WaitReturned /\ result.kind = "Ok"
  /\ duration = ZeroTime
  /\ k = 2 /\ setby = "reset"
  /\ attempts # <<>>

\* C11: once the Snooze exists no step changes its interval: neither
\* tv_sec nor tv_nsec of duration, in a successful or failed wait or reset.
C11_IntervalImmutable ==
  [][pc # "none" =>
       /\ duration'.tv_sec = duration.tv_sec
       /\ duration'.tv_nsec = duration.tv_nsec]_vars

\* A successful wait, a reset and a failed wait have all happened.
C11_Witness ==
  /\ WaitReturned /\ result.kind = "OsFailure"
  /\ calls = 3 /\ k = 1 /\ setby = "reset"
  /\ duration = new_duration(arg)
  /\ duration # ZeroTime

\* C13: Snooze::new makes one ffi::clock_gettime call and no
\* ffi::clock_nanosleep call, and the Snooze it returns holds the value
\* read as its anchor.
C13_NewReadsOnce ==
  (result.op = "new" /\ calls = 0) =>
    /\ nreads = 1
    /\ attempts = <<>>
    /\ (pc = "idle" => gt.ret = 0 /\ last_time = gt.tp)

C13_Witness ==
  /\ pc = "idle" /\ result.op = "new" /\ calls = 0
  /\ last_time = Timespec(0, 999999999)
  /\ now # last_time

\* C14 as stated: a Snooze is never built from a duration below zero.
C14_NegativeRejected ==
  (result.op = "new" /\ arg.secs < 0) => (result.kind # "Ok" /\ pc = "none")

\* C14 amended: new does not look at the sign of the duration: it succeeds
\* exactly when its clock read succeeds, and the Snooze holds the duration
\* as seconds truncated toward zero plus the remaining nanoseconds, both
\* <= 0 for a duration below zero.
C14_NegativeAccepted ==
  /\ result.op = "new" => ((result.kind = "Ok") = (gt.ret = 0))
  /\ pc # "none" =>
       /\ TotalEq(duration, Timespec(arg.secs, arg.nanos))
       /\ -NANOS_IN_SECOND < duration.tv_nsec /\ duration.tv_nsec < NANOS_IN_SECOND
       /\ (arg.secs < 0 => duration.tv_sec <= 0 /\ duration.tv_nsec <= 0)
       /\ (arg.secs >= 0 => NonNegInterval)

C14_Witness ==
  /\ pc = "idle" /\ result.op = "new" /\ result.kind = "Ok"
  /\ arg = [secs |-> -1, nanos |-> 500000000]
  /\ duration = Timespec(0, -500000000)

\* C15: after every sleep attempt the loop goes on exactly when that
\* attempt reported "interrupted", whatever errno held before it.
C15_DecidedByAttempt ==
  attempts # <<>> => ((LastAttempt.ret = "EINTR") = (pc = "wait"))

\* C16: whenever no wait is in progress the anchor is at or before the
\* clock.
C16_AnchorNotAhead ==
  pc = "idle" => TimeLeq(last_time, now)

\* A wait that blocked until the clock reached its target exactly.
C16_Witness ==
  /\ WaitReturned /\ result.kind = "Ok"
  /\ last_time = now
  /\ now # gt.tp
  /\ ~TimeLeq(last_time, pre_anchor)

\* The step is a wait returning Ok, a reset returning Ok, a call returning
\* an error.
WaitOkStep == pc = "wait" /\ pc' = "idle" /\ result'.kind = "Ok"
ResetOkStep == pc = "idle" /\ calls' = calls + 1 /\ pc' = "idle" /\ result'.kind = "Ok"
ErrStep == pc' = "idle" /\ result' # result /\ result'.kind # "Ok"

\* C17: with a non-negative interval no step moves the anchor back: a
\* successful wait adds the interval, a successful reset stores a clock
\* value at or after the old anchor, a failed call leaves the anchor.
C17_AnchorMonotone ==
  [][(pc # "none" /\ NonNegInterval) =>
       /\ TimeLeq(last_time, last_time')
       /\ (WaitOkStep =>
             TotalEq(last_time', Timespec(last_time.tv_sec + duration.tv_sec,
                                          last_time.tv_nsec + duration.tv_nsec)))
       /\ (ResetOkStep => last_time' = now /\ TimeLeq(last_time, now))
       /\ (ErrStep => last_time' = last_time)]_vars

\* A reset that moved the anchor forward after a wait had moved it.
C17_Witness ==
  /\ ResetReturned /\ result.kind = "Ok"
  /\ NonNegInterval /\ duration.tv_sec = 1
  /\ calls = 2
  /\ pre_anchor = Timespec(1, 0)
  /\ last_time = Timespec(1, 999999999)

\* The clock is at or past anchor + m * interval.
Behind(m) == TimeLeq(ExactSum(last_time, m, duration), now)

\* C18: with a non-negative interval and the clock at or past
\* anchor + m*I, a wait that starts has its target at or before the clock,
\* and when it returns Ok the anchor is exactly one interval later, not the
\* clock value, leaving the clock at or past anchor + (m-1)*I.
C18_MissedPeriodsReplayed ==
  [][(pc # "none" /\ NonNegInterval) =>
       \A m \in 1..MaxCalls :
         /\ (pc = "idle" /\ pc' = "wait" /\ Behind(m)) =>
              TimeLeq(target_time', now')
         /\ (WaitOkStep /\ Behind(m)) =>
              /\ last_time' = ExactSum(last_time, 1, duration)
              /\ TimeLeq(ExactSum(last_time', m - 1, duration), now')]_vars

\* After one replayed period a second wait is in progress, its target in
\* the past and the clock still a further period ahead.
C18_Witness ==
  /\ pc = "wait" /\ k = 1 /\ setby = "new" /\ calls = 2
  /\ duration = Timespec(0, 500000000)
  /\ TimeLeq(target_time, now)
  /\ TimeLeq(ExactSum(last_time, 2, duration), now)
  /\ now # ExactSum(last_time, 2, duration)

\* C12: if the sleep does not go on reporting "interrupted" for ever (again
\* and again the latest attempt of a wait in progress is something else),
\* every wait call returns.
C12_WaitTerminates ==
  ([]<>(pc # "wait" \/ (attempts # <<>> /\ LastAttempt.ret # "EINTR")))
    => (pc = "wait" ~> pc = "idle")

====
